---- MODULE Spec2Model ----
(***************************************************************************)
(* GitIngestManager (src/utils/gitingest_manager.py): the ingest pipeline, *)
(* the ingestion log, the exclusion resolver / command builder and the     *)
(* retention cleaner, as a state machine over the output directory, the    *)
(* configuration file and the log file.                                    *)
(*                                                                         *)
(* A string that the program joins with or splits at '_' is modelled as    *)
(* the sequence of its '_'-separated segments: "a_x" is <<"a", "x">>, so   *)
(* f"{repo}_{version}_{tokens}" is a concatenation of segment sequences    *)
(* and stem.split('_') is the sequence itself.                             *)
(***************************************************************************)
EXTENDS Integers, Sequences, FiniteSets, TLC

\* ---------------------------------------------------------------- bounds
MaxWrites == 2          \* ingestion outputs written over a behaviour
MaxTime == 1            \* seconds the wall clock advances
MaxExclusions == 2      \* length of an exclusion list in a drawn configuration

\* ------------------------------------------------------- generic helpers
None == "<None>"        \* Python's None, where the other values are strings

Get(d, k, default) == IF k \in DOMAIN d THEN d[k] ELSE default

Remove(f, k) == [n \in DOMAIN f \ {k} |-> f[n]]

Put(f, k, v) == [n \in DOMAIN f \cup {k} |-> IF n = k THEN v ELSE f[n]]

RECURSIVE Join(_, _)
Join(segs, sep) ==
    IF segs = <<>> THEN ""
    ELSE IF Len(segs) = 1 THEN segs[1]
    ELSE segs[1] \o sep \o Join(Tail(segs), sep)

RECURSIVE Flatten(_)
Flatten(ss) == IF ss = <<>> THEN <<>> ELSE Head(ss) \o Flatten(Tail(ss))

\* ------------------------------------------------- the configuration file
\* yaml document read by _load_config; repository names are segment sequences
InitialRepositories ==
    (<<"a">>      :> [source |-> "/src/a", exclusions |-> <<"*.log", "dist/">>]) @@
    (<<"a", "x">> :> [source |-> "/src/a_x"]) @@
    (<<"b">>      :> [source |-> "/src/b", exclusions |-> <<"dist/", "*.log">>])

InitialProfiles ==
    ("standard" :> [description |-> "std", additional_exclusions |-> <<"tests/">>]) @@
    ("bare"     :> [description |-> "no extras"])

SettingsWithMaxSize ==
    [output_dir |-> "out", token_counter |-> "/bin/tc", default_max_size |-> 1000]

SettingsNoMaxSize ==
    [output_dir |-> "out", token_counter |-> "/bin/tc"]

InitialConfig(settings) ==
    [settings |-> settings,
     repositories |-> InitialRepositories,
     profiles |-> InitialProfiles]

\* names the command line may carry
RepoArgs == {<<"a">>, <<"a", "x">>, <<"b">>, <<"zz">>}
ProfileArgs == {"standard"}
VersionArgs == {None, "2"}
KeepArgs == {-1, 0, 1, 2}

\* ------------------------------------------------------ exclusion resolver
\* the profile's patterns put before the repository's
_get_exclusions_ProfileFirst(cfg, repo_name, profile) ==
    LET exclusions == Get(cfg.repositories[repo_name], "exclusions", <<>>)
    IN  IF repo_name \notin DOMAIN cfg.repositories
        THEN [raised |-> "ValueError", value |-> <<>>, config |-> cfg]
        ELSE [raised |-> "",
              value |-> IF profile \in DOMAIN cfg.profiles
                        THEN Get(cfg.profiles[profile], "additional_exclusions", <<>>)
                             \o exclusions
                        ELSE exclusions,
              config |-> cfg]

\* _get_exclusions: [raised, value, config]; config is self.config after the
\* call, which extends a copy of the repository's list and so leaves it alone
_get_exclusions(cfg, repo_name, profile) ==
    LET repo_config == cfg.repositories[repo_name]
        exclusions == Get(repo_config, "exclusions", <<>>)
    IN  IF repo_name \notin DOMAIN cfg.repositories
        THEN [raised |-> "ValueError", value |-> <<>>, config |-> cfg]
        ELSE [raised |-> "",
              value |-> IF profile \in DOMAIN cfg.profiles
                        THEN exclusions \o
                             Get(cfg.profiles[profile], "additional_exclusions", <<>>)
                        ELSE exclusions,
              config |-> cfg]

\* _build_gitingest_command: [raised, value, config]
_build_gitingest_command(cfg, repo_name, output_file, profile) ==
    IF repo_name \notin DOMAIN cfg.repositories
    THEN [raised |-> "KeyError", value |-> <<>>, config |-> cfg]
    ELSE LET source == cfg.repositories[repo_name].source
             resolved == _get_exclusions(cfg, repo_name, profile)
             exclusions == resolved.value
             max_size == Get(resolved.config.settings, "default_max_size", 0)
             sizeArgs == IF max_size = 0
                         THEN <<>> ELSE <<"-s", ToString(max_size)>>
         IN  [raised |-> "",
              value |-> <<"gitingest", source, "-o", output_file>> \o sizeArgs \o
                        Flatten([i \in 1..Len(exclusions) |-> <<"-e", exclusions[i]>>]),
              config |-> resolved.config]

\* ------------------------------------------------------------ token counter
\* content of an ingestion output: decoded length, byte length, number of
\* '\n```' occurrences, first 8 hex digits of the md5 of the bytes
Contents ==
    {[chars |-> 4002, bytes |-> 4004, blocks |-> 2, digest |-> "9f86d081"]}

Word(isInt, val) == [int |-> isInt, val |-> val]

\* what the counter binary does: absent, exits non-zero, or prints words
CounterOutcomes ==
    {[kind |-> "missing", stdout |-> <<>>],
     [kind |-> "nonzero", stdout |-> <<>>],
     [kind |-> "exit0", stdout |-> <<>>],
     [kind |-> "exit0", stdout |-> <<Word(FALSE, 0)>>],
     [kind |-> "exit0", stdout |-> <<Word(TRUE, 1000), Word(FALSE, 0)>>]}

\* _count_tokens: [raised, token_count, char_count]
_count_tokens(content, counter) ==
    LET fallback == [raised |-> "",
                     token_count |-> content.chars \div 4,
                     char_count |-> content.chars]
        failed == [raised |-> "ValueError", token_count |-> 0, char_count |-> 0]
    IN  IF counter.kind = "missing" THEN fallback
        ELSE IF counter.kind = "nonzero" THEN fallback
        ELSE IF counter.stdout = <<>> THEN failed
        ELSE IF ~counter.stdout[1].int THEN failed
        ELSE [raised |-> "",
              token_count |-> counter.stdout[1].val,
              char_count |-> content.chars]

\* _get_file_hash
_get_file_hash(content) == content.digest

\* _format_token_count; a count exactly half way between two tenths of a
\* million is rounded to even
_format_token_count(count) ==
    IF count >= 1000000
    THEN LET q == count \div 100000
             r == count % 100000
             tenths == IF r > 50000 \/ (r = 50000 /\ q % 2 = 1) THEN q + 1 ELSE q
         IN  ToString(tenths \div 10) \o "." \o ToString(tenths % 10) \o "M"
    ELSE IF count >= 1000
    THEN ToString(count \div 1000) \o "k"
    ELSE ToString(count)

\* --------------------------------------------------------- version resolver
\* a remote URL is the sequence of its '/'-separated segments and whether it
\* ends with ".git"
Url(segs, dotgit) == [segs |-> segs, dotgit |-> dotgit]

\* the segments of the URLs below that contain the text "github.com"
GithubSegments == {"github.com", "git@github.com:repo"}

HasGithub(url) == \E i \in 1..Len(url.segs) : url.segs[i] \in GithubSegments

NoUrl == Url(<<"">>, FALSE)

\* what `git -C path config --get remote.origin.url` does
GitOutcomes ==
    {[kind |-> "notfound", url |-> NoUrl],      \* git cannot be executed
     [kind |-> "nonzero", url |-> NoUrl],       \* no remote, not a work tree
     [kind |-> "exit0", url |-> Url(<<"https:", "", "github.com", "octo", "repo">>, TRUE)],
     [kind |-> "exit0", url |-> Url(<<"https:", "", "gitlab.com", "octo", "repo">>, FALSE)],
     [kind |-> "exit0", url |-> Url(<<"git@github.com:repo">>, TRUE)]}

\* a tag is null or a sequence of characters
Tag(isNull, chars) == [null |-> isNull, chars |-> chars]

\* what requests.get(api_url, timeout=5) does
HttpOutcomes ==
    {[kind |-> "exception", status |-> 0, json |-> FALSE, has_tag |-> FALSE, tag |-> Tag(FALSE, <<>>)],
     [kind |-> "response", status |-> 404, json |-> TRUE, has_tag |-> FALSE, tag |-> Tag(FALSE, <<>>)],
     [kind |-> "response", status |-> 200, json |-> FALSE, has_tag |-> FALSE, tag |-> Tag(FALSE, <<>>)],
     [kind |-> "response", status |-> 200, json |-> TRUE, has_tag |-> FALSE, tag |-> Tag(FALSE, <<>>)],
     [kind |-> "response", status |-> 200, json |-> TRUE, has_tag |-> TRUE, tag |-> Tag(TRUE, <<>>)],
     [kind |-> "response", status |-> 200, json |-> TRUE, has_tag |-> TRUE, tag |-> Tag(FALSE, <<>>)],
     [kind |-> "response", status |-> 200, json |-> TRUE, has_tag |-> TRUE, tag |-> Tag(FALSE, <<"v", "2">>)],
     [kind |-> "response", status |-> 200, json |-> TRUE, has_tag |-> TRUE, tag |-> Tag(FALSE, <<"2">>)]}

\* _get_github_version: [raised, value], value None or a string
_get_github_version(git, http) ==
    LET none == [raised |-> "", value |-> None]
        parts == IF Len(git.url.segs) >= 2
                 THEN SubSeq(git.url.segs, Len(git.url.segs) - 1, Len(git.url.segs))
                 ELSE git.url.segs
        tag_name == IF http.has_tag THEN http.tag ELSE Tag(FALSE, <<>>)
        stripped == IF tag_name.chars # <<>> /\ Head(tag_name.chars) = "v"
                    THEN Tail(tag_name.chars) ELSE tag_name.chars
    IN  IF git.kind = "notfound" THEN [raised |-> "FileNotFoundError", value |-> None]
        ELSE IF git.kind = "nonzero" THEN none
        ELSE IF ~HasGithub(git.url) THEN none
        ELSE IF Len(parts) < 2 THEN [raised |-> "IndexError", value |-> None]
        ELSE IF http.kind = "exception" THEN none
        ELSE IF http.status # 200 THEN none
        ELSE IF ~http.json THEN none
        ELSE IF tag_name.null THEN none
        ELSE [raised |-> "", value |-> Join(stripped, "")]

\* -------------------------------------------------------- retention cleaner
\* file.stem.split('_')[0]
RepoKey(name) == name[1]

\* files.sort(key=mtime, reverse=True); every write has its own mtime
RECURSIVE SortNewestFirst(_, _)
SortNewestFirst(names, fs) ==
    IF names = {} THEN <<>>
    ELSE LET newest == CHOOSE n \in names : \A m \in names : fs[m].mtime <= fs[n].mtime
         IN  <<newest>> \o SortNewestFirst(names \ {newest}, fs)

\* files[keep_latest + 1:]
SliceFrom_KeepsOneMore(seq, keep_latest) ==
    LET n == Len(seq)
        from == keep_latest + 1
        start == IF from >= 0
                 THEN (IF from < n THEN from ELSE n)
                 ELSE (IF n + from > 0 THEN n + from ELSE 0)
    IN  SubSeq(seq, start + 1, n)

\* files[keep_latest:]
SliceFrom(seq, keep_latest) ==
    LET n == Len(seq)
        start == IF keep_latest >= 0
                 THEN (IF keep_latest < n THEN keep_latest ELSE n)
                 ELSE (IF n + keep_latest > 0 THEN n + keep_latest ELSE 0)
    IN  SubSeq(seq, start + 1, n)

\* the unlink loop over one group
RECURSIVE RemoveAll(_, _)
RemoveAll(acc, doomed) ==
    IF doomed = <<>> THEN acc
    ELSE RemoveAll([files |-> Remove(acc.files, Head(doomed)),
                    total_removed |-> acc.total_removed + 1,
                    total_size |-> acc.total_size + acc.files[Head(doomed)].content.bytes],
                   Tail(doomed))

RECURSIVE CleanGroups(_, _, _, _)
CleanGroups(acc, keys, fs, keep_latest) ==
    IF keys = {} THEN acc
    ELSE LET repo == CHOOSE k \in keys : TRUE
             group == {n \in DOMAIN fs : RepoKey(n) = repo}
             sorted == SortNewestFirst(group, fs)
         IN  CleanGroups(RemoveAll(acc, SliceFrom(sorted, keep_latest)),
                         keys \ {repo}, fs, keep_latest)

\* clean_old: [files, total_removed, total_size]
clean_old(fs, keep_latest) ==
    CleanGroups([files |-> fs, total_removed |-> 0, total_size |-> 0],
                {RepoKey(n) : n \in DOMAIN fs}, fs, keep_latest)

\* -------------------------------------------------------------------- state
VARIABLES
    files,        \* *.md files of the output directory: name -> [mtime, content]
    configFile,   \* the configuration document on disk
    logFile,      \* ingestion_log.json: [exists, valid, entries]
    config,       \* self.config of the running manager
    pc,           \* position of the running command: "idle" between commands,
                  \* "done" when it has ended and the process is about to exit
    loc,          \* locals of the ingest in flight or last run
    status,       \* how the last command ended: "none", "running", "ok", "exit1", "raised"
    raised,       \* the uncaught exception and the stage that raised it
    events,       \* side effects of the current command on the file system, in order
    pre,          \* files, configuration and log when the current command started
    cleaned,      \* keep count and report of the last clean
    op,           \* the current or last command
    now,          \* wall clock, seconds
    writes        \* ingestion outputs written so far; the next mtime

vars == <<files, configFile, logFile, config, pc, loc, status, raised, events,
          pre, cleaned, op, now, writes>>

EmptyDir == [n \in {} |-> 0]

AbsentLog == [exists |-> FALSE, valid |-> FALSE, entries |-> <<>>]
CorruptLog == [exists |-> TRUE, valid |-> FALSE, entries |-> <<>>]

NoError == [exc |-> "", stage |-> ""]
NoClean == [keep |-> 0, removed |-> 0, size |-> 0]

EmptyLoc ==
    [repo |-> <<>>, profile |-> "", version |-> None, timestamp |-> <<>>,
     temp |-> <<>>, cmd |-> <<>>, gitingest |-> "none", counter |-> "none",
     resolver |-> "none", token_count |-> 0, char_count |-> 0, file_count |-> 0,
     final |-> <<>>]

\* datetime.now().strftime("%Y%m%d_%H%M%S")
Timestamp(t) == <<"20261105", ToString(120000 + t)>>

\* str(self.output_dir / filename)
OutputPath(cfg, name) == cfg.settings.output_dir \o "/" \o Join(name, "_") \o ".md"

Snapshot == [files |-> files, configFile |-> configFile, logFile |-> logFile]

NoSnapshot == [files |-> EmptyDir, configFile |-> InitialConfig(SettingsWithMaxSize),
               logFile |-> AbsentLog]

Init ==
    /\ files = EmptyDir
    /\ configFile = InitialConfig(SettingsWithMaxSize)
    /\ config = configFile
    /\ logFile \in {AbsentLog, CorruptLog}
    /\ pc = "idle"
    /\ loc = EmptyLoc
    /\ status = "none"
    /\ raised = NoError
    /\ events = <<>>
    /\ pre = NoSnapshot
    /\ cleaned = NoClean
    /\ op = "none"
    /\ now = 0
    /\ writes = 0

\* an exception nothing catches ends the process
Abort(exc, stage) ==
    /\ pc' = "done"
    /\ status' = "raised"
    /\ raised' = [exc |-> exc, stage |-> stage]

\* main() for `ingest`: load the configuration, name the temporary file,
\* build the command
IngestStart(repo_name, profile, version) ==
    /\ pc = "idle"
    /\ LET timestamp == Timestamp(now)
           temp == repo_name \o <<"temp">> \o timestamp
           built == _build_gitingest_command(configFile, repo_name,
                                             OutputPath(configFile, temp), profile)
       IN  /\ loc' = [EmptyLoc EXCEPT !.repo = repo_name, !.profile = profile,
                                      !.version = version, !.timestamp = timestamp,
                                      !.temp = temp, !.cmd = built.value]
           /\ IF built.raised # ""
              THEN Abort(built.raised, "build")
              ELSE /\ pc' = "run"
                   /\ status' = "running"
                   /\ raised' = NoError
           /\ config' = built.config
    /\ op' = "ingest"
    /\ events' = <<>>
    /\ pre' = Snapshot
    /\ cleaned' = NoClean
    /\ UNCHANGED <<files, configFile, logFile, now, writes>>

\* an except branch that leaves the temporary file in place
HandleCalledProcessError_NoUnlink(fs, temp) == fs

\* the except branch of ingest: unlink the temporary file if it exists
HandleCalledProcessError(fs, temp) ==
    IF temp \in DOMAIN fs THEN Remove(fs, temp) ELSE fs

\* subprocess.run(cmd, check=True) and, when it fails, the except branch
IngestRun ==
    /\ pc = "run"
    /\ \/ \E content \in Contents :
            /\ writes < MaxWrites
            /\ files' = Put(files, loc.temp, [mtime |-> writes + 1, content |-> content])
            /\ writes' = writes + 1
            /\ events' = Append(events, "temp_created")
            /\ loc' = [loc EXCEPT !.gitingest = "exit0"]
            /\ pc' = "measure"
            /\ UNCHANGED <<status, raised>>
       \/ \E wrote \in BOOLEAN :
            LET partial == [mtime |-> writes + 1,
                            content |-> CHOOSE content \in Contents : TRUE]
                written == IF wrote THEN Put(files, loc.temp, partial) ELSE files
                after == HandleCalledProcessError(written, loc.temp)
            IN  /\ files' = after
                /\ events' = events \o (IF wrote THEN <<"temp_created">> ELSE <<>>)
                                    \o (IF after # written THEN <<"temp_deleted">> ELSE <<>>)
                /\ loc' = [loc EXCEPT !.gitingest = "nonzero"]
                /\ pc' = "done"
                /\ status' = "exit1"
                /\ UNCHANGED <<writes, raised>>
       \/ /\ loc' = [loc EXCEPT !.gitingest = "notfound"]
          /\ Abort("FileNotFoundError", "run")
          /\ UNCHANGED <<files, events, writes>>
    /\ UNCHANGED <<configFile, logFile, config, pre, cleaned, op, now>>

\* _count_tokens on the temporary file, then the code-block count
IngestMeasure ==
    /\ pc = "measure"
    /\ \E counter \in CounterOutcomes :
         LET content == files[loc.temp].content
             counted == _count_tokens(content, counter)
         IN  IF counted.raised # ""
             THEN /\ loc' = [loc EXCEPT !.counter = counter.kind]
                  /\ Abort(counted.raised, "measure")
             ELSE /\ loc' = [loc EXCEPT !.counter = counter.kind,
                                        !.token_count = counted.token_count,
                                        !.char_count = counted.char_count,
                                        !.file_count = content.blocks]
                  /\ pc' = "version"
                  /\ UNCHANGED <<status, raised>>
    /\ UNCHANGED <<files, configFile, logFile, config, events, pre, cleaned, op, now, writes>>

\* `if not version:` and the version resolver
IngestVersion ==
    /\ pc = "version"
    /\ IF loc.version = None \/ loc.version = ""
       THEN \E git \in GitOutcomes, http \in HttpOutcomes :
              LET resolved == _get_github_version(git, http)
              IN  IF resolved.raised # ""
                  THEN /\ loc' = [loc EXCEPT !.resolver = "raised"]
                       /\ Abort(resolved.raised, "version")
                  ELSE /\ IF resolved.value = None \/ resolved.value = ""
                          THEN loc' = [loc EXCEPT !.resolver = "no version",
                                                  !.version = "latest"]
                          ELSE loc' = [loc EXCEPT !.resolver = "found",
                                                  !.version = resolved.value]
                       /\ pc' = "rename"
                       /\ UNCHANGED <<status, raised>>
       ELSE /\ pc' = "rename"
            /\ UNCHANGED <<loc, status, raised>>
    /\ UNCHANGED <<files, configFile, logFile, config, events, pre, cleaned, op, now, writes>>

\* the configuration saved before the rename
IngestRename_SavesConfigFirst ==
    /\ pc = "rename"
    /\ LET final == loc.repo \o <<loc.version, _format_token_count(loc.token_count)>>
       IN  /\ files' = Put(Remove(files, loc.temp), final, files[loc.temp])
           /\ loc' = [loc EXCEPT !.final = final]
    /\ configFile' = config
    /\ events' = events \o <<"config_written", "renamed">>
    /\ pc' = "persist"
    /\ UNCHANGED <<logFile, config, status, raised, pre, cleaned, op, now, writes>>

\* final file name and temp_output_path.rename(final_output_path)
IngestRename ==
    /\ pc = "rename"
    /\ LET final == loc.repo \o <<loc.version, _format_token_count(loc.token_count)>>
       IN  /\ files' = Put(Remove(files, loc.temp), final, files[loc.temp])
           /\ loc' = [loc EXCEPT !.final = final]
    /\ events' = Append(events, "renamed")
    /\ pc' = "persist"
    /\ UNCHANGED <<configFile, logFile, config, status, raised, pre, cleaned, op, now, writes>>

\* the metadata block of one run
Metadata(l, fs) ==
    [last_updated |-> Join(l.timestamp, "_"),
     token_count |-> l.token_count,
     character_count |-> l.char_count,
     file_count |-> l.file_count,
     last_file |-> l.final,
     profile |-> l.profile,
     hash |-> _get_file_hash(fs[l.final].content)]

\* repo_config['metadata'] = {...}; self._save_config()
IngestPersist ==
    /\ pc = "persist"
    /\ config' = [config EXCEPT !.repositories[loc.repo] =
                                    Put(@, "metadata", Metadata(loc, files))]
    /\ configFile' = config'
    /\ events' = Append(events, "config_written")
    /\ pc' = "log"
    /\ UNCHANGED <<files, logFile, loc, status, raised, pre, cleaned, op, now, writes>>

\* the entry _save_ingestion_log appends
LogEntry(repo_name, profile, final, metadata) ==
    [timestamp |-> metadata.last_updated,
     repository |-> repo_name,
     profile |-> profile,
     file |-> final,
     tokens |-> metadata.token_count,
     characters |-> metadata.character_count,
     files |-> metadata.file_count,
     hash |-> metadata.hash]

\* _save_ingestion_log
IngestLog ==
    /\ pc = "log"
    /\ IF logFile.exists /\ ~logFile.valid
       THEN /\ Abort("JSONDecodeError", "log")
            /\ UNCHANGED <<logFile, events>>
       ELSE LET log == IF logFile.exists THEN logFile.entries ELSE <<>>
                entry == LogEntry(loc.repo, loc.profile, loc.final,
                                  config.repositories[loc.repo].metadata)
            IN  /\ logFile' = [exists |-> TRUE, valid |-> TRUE,
                               entries |-> Append(log, entry)]
                /\ events' = Append(events, "log_written")
                /\ pc' = "done"
                /\ status' = "ok"
                /\ UNCHANGED raised
    /\ UNCHANGED <<files, configFile, config, loc, pre, cleaned, op, now, writes>>

\* main() for `clean`: load the configuration, clean_old(args.keep)
Clean(keep_latest) ==
    /\ pc = "idle"
    /\ LET result == clean_old(files, keep_latest)
       IN  /\ files' = result.files
           /\ cleaned' = [keep |-> keep_latest,
                          removed |-> result.total_removed,
                          size |-> result.total_size]
    /\ config' = configFile
    /\ op' = "clean"
    /\ status' = "ok"
    /\ raised' = NoError
    /\ events' = <<>>
    /\ loc' = EmptyLoc
    /\ pre' = Snapshot
    /\ pc' = "done"
    /\ UNCHANGED <<configFile, logFile, now, writes>>

\* the process exits; only the files on disk outlive it
Exit ==
    /\ pc = "done"
    /\ pc' = "idle"
    /\ config' = configFile
    /\ loc' = EmptyLoc
    /\ status' = "none"
    /\ raised' = NoError
    /\ events' = <<>>
    /\ pre' = NoSnapshot
    /\ cleaned' = NoClean
    /\ op' = "none"
    /\ UNCHANGED <<files, configFile, logFile, now, writes>>

\* a second passes between two commands
Tick ==
    /\ pc = "idle"
    /\ now < MaxTime
    /\ now' = now + 1
    /\ UNCHANGED <<files, configFile, logFile, config, pc, loc, status, raised,
                   events, pre, cleaned, op, writes>>

Next ==
    \/ \E repo_name \in RepoArgs, profile \in ProfileArgs, version \in VersionArgs :
         IngestStart(repo_name, profile, version)
    \/ IngestRun
    \/ IngestMeasure
    \/ IngestVersion
    \/ IngestRename
    \/ IngestPersist
    \/ IngestLog
    \/ \E keep_latest \in KeepArgs : Clean(keep_latest)
    \/ Exit
    \/ Tick

Spec == Init /\ [][Next]_vars

\* ------------------------------------------- the command builder on its own
Patterns == {"*.log", "dist/"}

ExclusionLists == UNION {[1..n -> Patterns] : n \in 0..MaxExclusions}

BuildProfileArgs == {"standard", "bare", "nope"}

\* configuration documents the builder is applied to
BuildConfigs ==
    {[settings |-> settings,
      repositories |->
          (<<"a">> :> [source |-> "/src/a", exclusions |-> exclusions]) @@
          (<<"a", "x">> :> [source |-> "/src/a_x"]),
      profiles |->
          ("standard" :> [description |-> "std", additional_exclusions |-> additional]) @@
          ("bare" :> [description |-> "no extras"])] :
        settings \in {SettingsWithMaxSize, SettingsNoMaxSize},
        exclusions \in ExclusionLists,
        additional \in ExclusionLists}

InitBuild ==
    /\ files = EmptyDir
    /\ configFile \in BuildConfigs
    /\ config = configFile
    /\ logFile = AbsentLog
    /\ pc = "idle"
    /\ loc = EmptyLoc
    /\ status = "none"
    /\ raised = NoError
    /\ events = <<>>
    /\ pre = NoSnapshot
    /\ cleaned = NoClean
    /\ op = "none"
    /\ now = 0
    /\ writes = 0

\* a manager is constructed and builds the command of one repository and profile
Build(repo_name, profile) ==
    /\ pc = "idle"
    /\ LET temp == repo_name \o <<"temp">> \o Timestamp(now)
           built == _build_gitingest_command(configFile, repo_name,
                                             OutputPath(configFile, temp), profile)
       IN  /\ loc' = [EmptyLoc EXCEPT !.repo = repo_name, !.profile = profile,
                                      !.temp = temp, !.cmd = built.value]
           /\ config' = built.config
           /\ status' = IF built.raised # "" THEN "raised" ELSE "ok"
           /\ raised' = IF built.raised # ""
                        THEN [exc |-> built.raised, stage |-> "build"] ELSE NoError
    /\ op' = "build"
    /\ pc' = "done"
    /\ UNCHANGED <<files, configFile, logFile, events, pre, cleaned, now, writes>>

NextBuild ==
    \/ \E repo_name \in RepoArgs, profile \in BuildProfileArgs : Build(repo_name, profile)
    \/ Exit

SpecBuild == InitBuild /\ [][NextBuild]_vars

\* ------------------------------------------ retention with keep counts >= 1
NextRetain ==
    \/ \E repo_name \in RepoArgs, profile \in ProfileArgs, version \in VersionArgs :
         IngestStart(repo_name, profile, version)
    \/ IngestRun
    \/ IngestMeasure
    \/ IngestVersion
    \/ IngestRename
    \/ IngestPersist
    \/ IngestLog
    \/ \E keep_latest \in {k \in KeepArgs : k >= 1} : Clean(keep_latest)
    \/ Exit
    \/ Tick

SpecRetain == Init /\ [][NextRetain]_vars

\* ------------------------------------------------------------------ claims
Range(seq) == {seq[i] : i \in 1..Len(seq)}

IngestDone == pc = "done" /\ op = "ingest"

\* every file but `name` is as it was when the command started
OthersUntouched(name) ==
    /\ DOMAIN files \ {name} = DOMAIN pre.files \ {name}
    /\ \A n \in DOMAIN files \ {name} : files[n] = pre.files[n]

\* C1: when the ingestion command exits non-zero, ingest ends with exit code 1,
\* the temporary file does not exist, no other file of the output directory is
\* created, replaced or removed, the configuration file is not rewritten and
\* keeps the repository's metadata, and the log file is not rewritten.
C1_FailedIngestLeavesNoTrace ==
    (IngestDone /\ loc.gitingest = "nonzero") =>
        /\ status = "exit1"
        /\ loc.temp \notin DOMAIN files
        /\ OthersUntouched(loc.temp)
        /\ "renamed" \notin Range(events)
        /\ "config_written" \notin Range(events)
        /\ configFile = pre.configFile
        /\ "log_written" \notin Range(events)
        /\ logFile = pre.logFile

\* a failed ingestion command that had written its output, after an earlier
\* successful ingest of the same repository
C1_Witness ==
    /\ IngestDone
    /\ loc.gitingest = "nonzero"
    /\ events = <<"temp_created", "temp_deleted">>
    /\ "metadata" \in DOMAIN configFile.repositories[loc.repo]
    /\ DOMAIN files # {}

\* C2: however an ingest ends, its temporary file is not in the output directory.
C2_NoTempFileRemains ==
    IngestDone => loc.temp \notin DOMAIN files

\* C3: a counter failure never aborts the ingest (no exception leaves the
\* measurement), and with the counter missing or exiting non-zero the token count
\* is character_count // 4 and character_count the length of the decoded text.
C3_CounterFailureNeverAborts ==
    /\ raised.stage # "measure"
    /\ (pc \in {"version", "rename"} /\ loc.counter \in {"missing", "nonzero"}) =>
           /\ loc.char_count = files[loc.temp].content.chars
           /\ loc.token_count = loc.char_count \div 4

\* C4: the version resolver never raises, and an ingest without explicit version
\* whose lookup fails names its artifact with "latest" and completes.
C4_ResolverNeverRaises ==
    /\ raised.stage # "version"
    /\ (op = "ingest" /\ loc.resolver = "no version") =>
           /\ loc.version = "latest"
           /\ pc \in {"rename", "persist", "log", "done"}
           /\ loc.final \in {<<>>, loc.repo \o <<"latest", _format_token_count(loc.token_count)>>}

Rank(event) ==
    CASE event = "temp_created" -> 1
      [] event = "temp_deleted" -> 2
      [] event = "renamed" -> 2
      [] event = "config_written" -> 3
      [] event = "log_written" -> 4

\* C5: the side effects of an ingest occur in the order temporary file created,
\* then deleted or renamed (never both), then configuration rewritten, then log
\* rewritten, each at most once; the configuration is rewritten only after the
\* rename and the log only after the configuration; when the ingestion command
\* fails there is no rename and no rewrite.
C5_SideEffectOrder ==
    op = "ingest" =>
        /\ \A i, j \in 1..Len(events) : i < j => Rank(events[i]) < Rank(events[j])
        /\ "renamed" \in Range(events) => "temp_created" \in Range(events)
        /\ "config_written" \in Range(events) =>
               /\ "renamed" \in Range(events)
               /\ loc.final \in DOMAIN files
               /\ loc.temp \notin DOMAIN files
        /\ "log_written" \in Range(events) => "config_written" \in Range(events)
        /\ configFile # pre.configFile => "config_written" \in Range(events)
        /\ logFile # pre.logFile => "log_written" \in Range(events)
        /\ (loc.gitingest = "nonzero" \/ "temp_deleted" \in Range(events)) =>
               Range(events) \subseteq {"temp_created", "temp_deleted"}

\* a successful ingest with all four side effects
C5_Witness ==
    /\ IngestDone
    /\ status = "ok"
    /\ events = <<"temp_created", "renamed", "config_written", "log_written">>

\* the log document as _save_ingestion_log is claimed to read it
ClaimedLog(file) == IF file.exists /\ file.valid THEN file.entries ELSE <<>>

\* C6: an ingest that has renamed its artifact and saved the metadata turns the
\* log L (empty when the file is absent or unreadable) into L followed by the one
\* entry of this run.
C6_LogAppendOnly ==
    (IngestDone /\ "config_written" \in Range(events)) =>
        /\ status = "ok"
        /\ logFile.exists /\ logFile.valid
        /\ logFile.entries =
               Append(ClaimedLog(pre.logFile),
                      [timestamp |-> Join(loc.timestamp, "_"),
                       repository |-> loc.repo,
                       profile |-> loc.profile,
                       file |-> loc.final,
                       tokens |-> loc.token_count,
                       characters |-> loc.char_count,
                       files |-> loc.file_count,
                       hash |-> files[loc.final].content.digest])

\* C7: after clean(k), for any integer k, a second clean(k) removes nothing.
C7_CleanIdempotent ==
    (pc = "done" /\ op = "clean") => clean_old(files, cleaned.keep).files = files

Min(a, b) == IF a < b THEN a ELSE b

RECURSIVE ExclusionArgs(_)
ExclusionArgs(argv) ==
    IF Len(argv) < 2 THEN <<>>
    ELSE IF argv[1] = "-e" THEN <<argv[2]>> \o ExclusionArgs(Tail(Tail(argv)))
    ELSE IF argv[1] \in {"-o", "-s"} THEN ExclusionArgs(Tail(Tail(argv)))
    ELSE ExclusionArgs(Tail(argv))

\* C9: the -e arguments of the built command are the repository's exclusions in
\* order followed by the profile's additional exclusions in order, only the
\* former when the profile is unknown, and the repository's stored list is as
\* it was.
C9_ExclusionOrder ==
    (pc = "done" /\ op = "build" /\ loc.repo \in DOMAIN configFile.repositories) =>
        LET stored == Get(configFile.repositories[loc.repo], "exclusions", <<>>)
            added == IF loc.profile \in DOMAIN configFile.profiles
                     THEN Get(configFile.profiles[loc.profile],
                              "additional_exclusions", <<>>)
                     ELSE <<>>
        IN  /\ status = "ok"
            /\ ExclusionArgs(Tail(loc.cmd)) = stored \o added
            /\ config.repositories = configFile.repositories

\* two base exclusions in one order and two additional ones
C9_Witness ==
    /\ pc = "done" /\ op = "build"
    /\ loc.repo = <<"a">>
    /\ loc.profile = "standard"
    /\ ExclusionArgs(Tail(loc.cmd)) = <<"dist/", "*.log", "*.log", "dist/">>

\* C10: between commands, with every clean run with k >= 1, the file named by a
\* repository's metadata.last_file exists.
C10_CurrentArtifactKept ==
    pc = "idle" =>
        \A r \in DOMAIN configFile.repositories :
            "metadata" \in DOMAIN configFile.repositories[r] =>
                configFile.repositories[r].metadata.last_file \in DOMAIN files

====
